---- MODULE Spec2Model ----
(***************************************************************************)
(* Model of scripts/replace-alerts.py: the import normalizer               *)
(* (add_toast_import), the call-site rewriter (replace_alerts), the        *)
(* per-file pipeline (process_alert_file) and the batch loop (main).       *)
(*                                                                         *)
(* A text is a sequence of one-character strings.  Regular expressions are *)
(* modelled by what Python's re module does with them: the pattern is      *)
(* first parsed (re_compile), then matched by a backtracking matcher that  *)
(* tries the alternatives in the engine's priority order.                  *)
(***************************************************************************)
EXTENDS Integers, Sequences, FiniteSets, TLC

(***************************************************************************)
(* Bounds of the model.                                                    *)
(***************************************************************************)
\* Longest input text of TextSpec, in fragments.
MaxFrags == 2
\* Longest chain of applications of the two text functions in TextSpec.
MaxOps == 3
\* Length of the manifest in Spec (ALERT_FILES holds 47 paths).
NumFiles == 2

(***************************************************************************)
(* String literals of the source.                                          *)
(***************************************************************************)
\* The backquote character (U+0060), which a string of the model cannot hold.
BQ == "backquote"


\* line 91: the substring "from 'sonner'"
SONNER_SIGNATURE ==
    <<"f","r","o","m"," ","'","s","o","n","n","e","r","'">>

\* line 101: "import { toast } from 'sonner';\n"
toast_import ==
    <<"i","m","p","o","r","t"," ","{"," ","t","o","a","s","t"," ","}"," ","f","r","o","m"," ",
      "'","s","o","n","n","e","r","'",";","\n">>

\* line 95: the literal 'import' of import_pattern
KwImport ==
    <<"i","m","p","o","r","t">>

\* line 95: the literal 'from' of import_pattern
KwFrom ==
    <<"f","r","o","m">>

\* line 112: the pattern of the success rule, as written (a raw string)
SUCCESS_PATTERN ==
    <<"a","l","e","r","t","\\","(","[","'","\\","\"","]","(","[","^","'","\\","\"","]","*","(",
      "?",":","s","u","c","c","e","s","s","|","S","u","c","c","e","s","s","|","c","r","e","a",
      "t","e","d","|","C","r","e","a","t","e","d","|","u","p","d","a","t","e","d","|","U","p",
      "d","a","t","e","d","|","s","a","v","e","d","|","S","a","v","e","d","|","g","e","n","e",
      "r","a","t","e","d","|","G","e","n","e","r","a","t","e","d",")","[","^","'","\\","\"","]",
      "*",")","[","'","\\","\"","]","\\","\\",")",";">>

\* line 119: the pattern of the error rule, as written (a raw string)
ERROR_PATTERN ==
    <<"a","l","e","r","t","\\","(","[","'","\\","\"","]","(","[","^","'","\\","\"","]","*","(",
      "?",":","f","a","i","l","e","d","|","F","a","i","l","e","d","|","e","r","r","o","r","|",
      "E","r","r","o","r","|","i","n","v","a","l","i","d","|","I","n","v","a","l","i","d","|",
      "p","l","e","a","s","e","|","P","l","e","a","s","e",")","[","^","'","\\","\"","]","*",")",
      "[","'","\\","\"","]","\\","\\",")",";">>

\* line 126: the pattern of the template-literal rule
TEMPLATE_PATTERN ==
    <<"a","l","e","r","t","\\","(",BQ,"(","[","^",BQ,"]","*",")",BQ,"\\",")",";">>

\* line 133: the pattern of the fallback rule
FALLBACK_PATTERN ==
    <<"a","l","e","r","t","\\","(","(","[","^",")","]","+",")","\\",")",";">>

\* line 126: the literal prefix of TEMPLATE_PATTERN, alert( and a backquote
AlertTemplateOpen ==
    <<"a","l","e","r","t","(",BQ>>

\* line 126: the literal suffix of TEMPLATE_PATTERN, a backquote and );
TemplateClose ==
    <<BQ,")",";">>

\* line 133: the literal prefix 'alert(' of FALLBACK_PATTERN
AlertOpen ==
    <<"a","l","e","r","t","(">>

\* line 133: the literal suffix ');' of FALLBACK_PATTERN
CallClose ==
    <<")",";">>

\* line 127: the replacement's prefix, toast.error( and a backquote
ToastErrorTemplateOpen ==
    <<"t","o","a","s","t",".","e","r","r","o","r","(",BQ>>

\* line 134: the replacement's prefix 'toast.error('
ToastErrorOpen ==
    <<"t","o","a","s","t",".","e","r","r","o","r","(">>

(***************************************************************************)
(* Text helpers.                                                           *)
(***************************************************************************)
\* s[i..] starts with p (Python: s.startswith(p, i-1)).
MatchesAt(s, i, p) ==
    /\ i >= 1
    /\ i + Len(p) - 1 <= Len(s)
    /\ SubSeq(s, i, i + Len(p) - 1) = p

\* Python's (p in s) for strings.
Contains(s, p) == \E i \in 1..(Len(s) - Len(p) + 1) : MatchesAt(s, i, p)

\* The least and the greatest element of a non-empty set of integers.
Least(S) == CHOOSE x \in S : \A y \in S : x <= y
Greatest(S) == CHOOSE x \in S : \A y \in S : x >= y

\* The class \s of the re module, over the characters the model uses.
IsSpace(c) == c \in {" ", "\t", "\n", "\r"}

\* The class ['\"] of the patterns.
IsQuote(c) == c \in {"'", "\""}

\* Length of the run of \s characters of s that starts at i.
SpaceRun(s, i) ==
    Greatest({n \in 0..(Len(s) - i + 1) : \A k \in i..(i + n - 1) : IsSpace(s[k])})

\* No line break in s[a..b-1]: what "." may run over.
NoNewline(s, a, b) == \A k \in a..(b - 1) : s[k] # "\n"

(***************************************************************************)
(* import_pattern (line 95):  (import\s+.*?from\s+['\"].*?['\"];?\n)       *)
(* Each operator is one suffix of the pattern and returns the index just   *)
(* after the match (match.end() + 1), or 0 when that suffix cannot match.  *)
(* The backtracking engine returns the first match in its order of trial:  *)
(* a greedy quantifier tries the longest repetition first, a lazy one the  *)
(* shortest; "." stops at a line break.                                    *)
(***************************************************************************)
\* ['\"];?\n  at v: the optional ";" is tried first
QuoteTail(s, v) ==
    IF v <= Len(s) /\ IsQuote(s[v])
    THEN IF v + 2 <= Len(s) /\ s[v + 1] = ";" /\ s[v + 2] = "\n" THEN v + 3
         ELSE IF v + 1 <= Len(s) /\ s[v + 1] = "\n" THEN v + 2 ELSE 0
    ELSE 0

\* .*?['\"];?\n  from u: the shortest run of "." after which the rest matches
ModuleTail(s, u) ==
    LET ok == {v \in u..Len(s) : NoNewline(s, u, v) /\ QuoteTail(s, v) # 0}
    IN  IF ok = {} THEN 0 ELSE QuoteTail(s, Least(ok))

\* ['\"].*?['\"];?\n  at q
ModuleAt(s, q) == IF q <= Len(s) /\ IsQuote(s[q]) THEN ModuleTail(s, q + 1) ELSE 0

\* \s+['\"].*?['\"];?\n  from r: the longest run of \s after which the rest matches
FromTail(s, r) ==
    LET ok == {n \in 1..SpaceRun(s, r) : ModuleAt(s, r + n) # 0}
    IN  IF ok = {} THEN 0 ELSE ModuleAt(s, r + Greatest(ok))

\* from\s+['\"].*?['\"];?\n  at q
FromAt(s, q) == IF MatchesAt(s, q, KwFrom) THEN FromTail(s, q + Len(KwFrom)) ELSE 0

\* .*?from\s+...  from p: the shortest run of "." after which the rest matches
BindingsTail(s, p) ==
    LET ok == {q \in p..Len(s) : NoNewline(s, p, q) /\ FromAt(s, q) # 0}
    IN  IF ok = {} THEN 0 ELSE FromAt(s, Least(ok))

\* \s+.*?from...  from j: the longest run of \s after which the rest matches
ImportTail(s, j) ==
    LET ok == {n \in 1..SpaceRun(s, j) : BindingsTail(s, j + n) # 0}
    IN  IF ok = {} THEN 0 ELSE BindingsTail(s, j + Greatest(ok))

\* The whole pattern at i.
import_pattern(s, i) ==
    IF MatchesAt(s, i, KwImport) THEN ImportTail(s, i + Len(KwImport)) ELSE 0

\* One step of the scan of re.finditer (line 96) at index i: st.pos is the index
\* the scan has reached, st.last the end of the last match found (0: none yet).
\* Matches do not overlap: the scan resumes at the end of a match.
FindStep(s, i, st) ==
    IF i < st.pos THEN st
    ELSE LET e == import_pattern(s, i)
         IN  IF e # 0 THEN [pos |-> e, last |-> e] ELSE [pos |-> i + 1, last |-> st.last]

\* The steps lo..hi of the scan, left to right; the steps a match has run over
\* change nothing.
RECURSIVE FindScan(_, _, _, _)
FindScan(s, lo, hi, st) ==
    IF lo > hi THEN st
    ELSE IF lo = hi THEN FindStep(s, lo, st)
    ELSE LET mid == (lo + hi) \div 2
             left == FindScan(s, lo, mid, st)
         IN  IF left.pos > hi THEN left ELSE FindScan(s, mid + 1, hi, left)

\* imports[-1].end() + 1 (lines 99-100), or 0 when imports is empty (line 98).
LastImportEnd(s) == FindScan(s, 1, Len(s), [pos |-> 1, last |-> 0]).last

\* Mutant: the import is inserted whether or not the text already holds one.
add_toast_import_unguarded(content) ==
    LET insertion_point == LastImportEnd(content)
    IN  IF insertion_point # 0
        THEN SubSeq(content, 1, insertion_point - 1) \o toast_import
                 \o SubSeq(content, insertion_point, Len(content))
        ELSE content

add_toast_import(content) ==
    IF Contains(content, SONNER_SIGNATURE) THEN content
    ELSE LET insertion_point == LastImportEnd(content)
         IN  IF insertion_point # 0
             THEN SubSeq(content, 1, insertion_point - 1) \o toast_import
                      \o SubSeq(content, insertion_point, Len(content))
             ELSE content

(***************************************************************************)
(* re.sub compiles its pattern before it looks at the text.  ParseStep     *)
(* follows the parser of the re module over the pattern: an escape takes   *)
(* two characters, a character set runs to its "]", "(" opens a group and  *)
(* ")" closes the innermost open one.  In the parser's state, next is the  *)
(* index of the next character to read, opens holds the 0-based positions  *)
(* of the groups still open, setAt the position of the "[" of the set      *)
(* being read (-1 outside a set), and error is "ok" or the error raised,   *)
(* with the 0-based position pos the re module reports.                    *)
(***************************************************************************)
ParseStep(p, i, st) ==
    IF st.error # "ok" \/ i < st.next THEN st
    ELSE IF p[i] = "\\" THEN [st EXCEPT !.next = i + 2]
    ELSE IF st.setAt >= 0
         THEN [st EXCEPT !.next = i + 1, !.setAt = IF p[i] = "]" THEN -1 ELSE st.setAt]
    ELSE IF p[i] = "[" THEN [st EXCEPT !.next = i + 1, !.setAt = i - 1]
    ELSE IF p[i] = "(" THEN [st EXCEPT !.next = i + 1, !.opens = Append(st.opens, i - 1)]
    ELSE IF p[i] = ")"
         THEN IF st.opens = <<>>
              THEN [st EXCEPT !.error = "unbalanced parenthesis", !.pos = i - 1]
              ELSE [st EXCEPT !.next = i + 1,
                              !.opens = SubSeq(st.opens, 1, Len(st.opens) - 1)]
    ELSE [st EXCEPT !.next = i + 1]

\* The steps lo..hi of the parser, left to right; an error ends the parse.
RECURSIVE ParseScan(_, _, _, _)
ParseScan(p, lo, hi, st) ==
    IF lo > hi THEN st
    ELSE IF lo = hi THEN ParseStep(p, lo, st)
    ELSE LET mid == (lo + hi) \div 2
             left == ParseScan(p, lo, mid, st)
         IN  IF left.error # "ok" THEN left ELSE ParseScan(p, mid + 1, hi, left)

\* The end of the pattern: a set or a group still open is an error.
re_compile(pattern) ==
    LET st == ParseScan(pattern, 1, Len(pattern),
                        [next |-> 1, opens |-> <<>>, setAt |-> -1, error |-> "ok", pos |-> 0])
    IN  IF st.error # "ok" THEN [error |-> st.error, pos |-> st.pos]
        ELSE IF st.setAt >= 0 THEN [error |-> "unterminated character set", pos |-> st.setAt]
        ELSE IF st.opens # <<>>
             THEN [error |-> "missing ), unterminated subpattern",
                   pos |-> st.opens[Len(st.opens)]]
        ELSE [error |-> "ok", pos |-> Len(pattern)]

(***************************************************************************)
(* The matchers of the patterns that compile.  Each returns the index just *)
(* after the match of the pattern at i, or 0.                              *)
(***************************************************************************)
\* First index k >= i with s[k] = c, or 0.
IndexOf(s, i, c) ==
    LET at == {k \in i..Len(s) : s[k] = c}
    IN  IF at = {} THEN 0 ELSE Least(at)

\* TEMPLATE_PATTERN: the set that excludes the backquote can only end at the first
\* backquote after the prefix.
template_match(s, i) ==
    IF ~MatchesAt(s, i, AlertTemplateOpen) THEN 0
    ELSE LET k == IndexOf(s, i + Len(AlertTemplateOpen), BQ)
         IN  IF k # 0 /\ MatchesAt(s, k, TemplateClose) THEN k + Len(TemplateClose) ELSE 0

\* FALLBACK_PATTERN: [^)]+ takes at least one character and can only end at the
\* first ")" after the prefix.
fallback_match(s, i) ==
    IF ~MatchesAt(s, i, AlertOpen) THEN 0
    ELSE LET k == IndexOf(s, i + Len(AlertOpen), ")")
         IN  IF k > i + Len(AlertOpen) /\ MatchesAt(s, k, CallClose)
             THEN k + Len(CallClose) ELSE 0

\* The match of a compiled pattern at i; a pattern that does not compile has none.
pattern_match(pattern, s, i) ==
    IF pattern = TEMPLATE_PATTERN THEN template_match(s, i)
    ELSE IF pattern = FALLBACK_PATTERN THEN fallback_match(s, i)
    ELSE 0

\* The replacement of the match s[i..e-1] (lines 127, 134): the group \1 is the
\* match without the pattern's literal prefix and suffix.
expand(pattern, s, i, e) ==
    IF pattern = TEMPLATE_PATTERN
    THEN ToastErrorTemplateOpen
             \o SubSeq(s, i + Len(AlertTemplateOpen), e - Len(TemplateClose) - 1)
             \o TemplateClose
    ELSE ToastErrorOpen \o SubSeq(s, i + Len(AlertOpen), e - Len(CallClose) - 1)
             \o CallClose

\* One step of the scan of re.sub at index i: a match is replaced and the scan
\* resumes at its end, any other character is copied.  n counts the replacements.
SubStep(pattern, s, i, st) ==
    IF i < st.pos THEN st
    ELSE LET e == pattern_match(pattern, s, i)
         IN  IF e # 0
             THEN [pos |-> e, text |-> st.text \o expand(pattern, s, i, e), n |-> st.n + 1]
             ELSE [pos |-> i + 1, text |-> Append(st.text, s[i]), n |-> st.n]

\* The steps lo..hi of the scan, left to right.
RECURSIVE SubScan(_, _, _, _, _)
SubScan(pattern, s, lo, hi, st) ==
    IF lo > hi THEN st
    ELSE IF lo = hi THEN SubStep(pattern, s, lo, st)
    ELSE LET mid == (lo + hi) \div 2
             left == SubScan(pattern, s, lo, mid, st)
         IN  IF left.pos > hi THEN left ELSE SubScan(pattern, s, mid + 1, hi, left)

\* re.sub(pattern, repl, content): raises re.error when the pattern does not compile.
re_sub(pattern, content) ==
    LET c == re_compile(pattern)
    IN  IF c.error # "ok"
        THEN [raised |-> TRUE, error |-> c.error, pos |-> c.pos, text |-> content, n |-> 0]
        ELSE LET r == SubScan(pattern, content, 1, Len(content),
                              [pos |-> 1, text |-> <<>>, n |-> 0])
             IN  [raised |-> FALSE, error |-> "ok", pos |-> 0, text |-> r.text, n |-> r.n]

\* The patterns in the order of the calls of re.sub (lines 111, 118, 125, 132).
RULES == <<SUCCESS_PATTERN, ERROR_PATTERN, TEMPLATE_PATTERN, FALLBACK_PATTERN>>

\* The calls of re.sub from rule k on; the first one that raises ends the function.
\* subs[k] is the number of call sites rule k rewrote.
RECURSIVE ApplyRules(_, _, _)
ApplyRules(k, content, subs) ==
    IF k > Len(RULES)
    THEN [raised |-> FALSE, error |-> "ok", pos |-> 0, text |-> content, subs |-> subs]
    ELSE LET r == re_sub(RULES[k], content)
         IN  IF r.raised
             THEN [raised |-> TRUE, error |-> r.error, pos |-> r.pos,
                   text |-> content, subs |-> subs]
             ELSE ApplyRules(k + 1, r.text, [subs EXCEPT ![k] = r.n])

replace_alerts(content) == ApplyRules(1, content, <<0, 0, 0, 0>>)

(***************************************************************************)
(* Input texts: concatenations of lines a source file may hold.            *)
(***************************************************************************)
\* an import of another module
FragImport ==
    <<"i","m","p","o","r","t"," ","a"," ","f","r","o","m"," ","'","b","'",";","\n">>
\* an import of sonner, single-quoted
FragSonnerSingle ==
    <<"i","m","p","o","r","t"," ","{"," ","t","o","a","s","t"," ","}"," ","f","r","o","m"," ",
      "'","s","o","n","n","e","r","'",";","\n">>
\* an import of sonner, double-quoted
FragSonnerDouble ==
    <<"i","m","p","o","r","t"," ","{"," ","t","o","a","s","t"," ","}"," ","f","r","o","m"," ",
      "\"","s","o","n","n","e","r","\"",";","\n">>
\* Scenario A's call: a quoted literal with a success keyword
FragAlertSuccess ==
    <<"a","l","e","r","t","(","'","P","e","r","m","i","t"," ","c","r","e","a","t","e","d"," ",
      "s","u","c","c","e","s","s","f","u","l","l","y","'",")",";","\n">>
\* a quoted literal with a success keyword in upper case
FragAlertUpper ==
    <<"a","l","e","r","t","(","'","S","A","V","E","D","'",")",";","\n">>
\* a call of alert with no argument
FragAlertEmpty ==
    <<"a","l","e","r","t","(",")",";","\n">>
\* a call of alert not followed by a semicolon
FragAlertNoSemi ==
    <<"a","l","e","r","t","(","m","s","g",")","\n">>
\* a call of alert with a template literal
FragAlertTemplate ==
    <<"a","l","e","r","t","(",BQ,"F","a","i","l","e","d"," ","$","{","n","}",BQ,")",";","\n">>
\* a line with neither an import nor a call of alert
FragCode ==
    <<"c","o","n","s","t"," ","x"," ","="," ","1",";","\n">>
\* the from clause of an import of sonner written with double quotes
SONNER_DOUBLE_QUOTED ==
    <<"f","r","o","m"," ","\"","s","o","n","n","e","r","\"">>
\* Scenario A's call of alert
AlertSuccessCall ==
    <<"a","l","e","r","t","(","'","P","e","r","m","i","t"," ","c","r","e","a","t","e","d"," ",
      "s","u","c","c","e","s","s","f","u","l","l","y","'",")",";">>
\* the call of alert of FragAlertUpper
AlertUpperCall ==
    <<"a","l","e","r","t","(","'","S","A","V","E","D","'",")",";">>
\* the call Scenario A expects in the output
ToastSuccessCall ==
    <<"t","o","a","s","t",".","s","u","c","c","e","s","s","(","'","P","e","r","m","i","t"," ",
      "c","r","e","a","t","e","d"," ","s","u","c","c","e","s","s","f","u","l","l","y","'",")",
      ";">>
\* the call a case-insensitive success rule would produce from FragAlertUpper
ToastSuccessUpper ==
    <<"t","o","a","s","t",".","s","u","c","c","e","s","s","(","'","S","A","V","E","D","'",")",
      ";">>

\* The concatenation of a sequence of fragments.
RECURSIVE Flatten(_)
Flatten(fs) == IF fs = <<>> THEN <<>> ELSE Head(fs) \o Flatten(Tail(fs))

Fragments ==
    {FragImport, FragSonnerSingle, FragSonnerDouble, FragAlertSuccess, FragAlertUpper,
     FragAlertEmpty, FragAlertNoSemi, FragAlertTemplate, FragCode}

\* The input texts of TextSpec.
Texts == {Flatten(fs) : fs \in UNION {[1..n -> Fragments] : n \in 0..MaxFrags}}

\* The contents a manifest file may have in Spec.
FileTexts ==
    {FragImport \o FragAlertSuccess,
     FragSonnerSingle \o FragCode,
     FragSonnerDouble \o FragAlertTemplate,
     FragAlertSuccess}

\* A path of the manifest that does not exist under BASE_DIR.
Missing == [exists |-> FALSE, text |-> <<>>, readable |-> FALSE, writable |-> FALSE]

\* What a manifest path may be on disk: missing, or a file with a content that
\* open(..., 'r') and open(..., 'w') each may or may not be able to open (a
\* failed open raises before the file is touched).  Path.exists() is taken to
\* answer with a boolean.
FileStates ==
    {Missing} \cup
    {[exists |-> TRUE, text |-> t, readable |-> r, writable |-> w] :
        t \in FileTexts, r \in BOOLEAN, w \in BOOLEAN}

(***************************************************************************)
(* State.                                                                  *)
(***************************************************************************)
VARIABLES
    disk,       \* Spec: manifest index -> the file's state on disk
    disk0,      \* Spec: the disk as the run found it
    idx,        \* Spec: the index in ALERT_FILES of the next file of the loop of main
    pc,         \* Spec: "loop", "done" (summary printed) or "crashed" (exception left main)
    processed,  \* Spec: line 175
    skipped,    \* Spec: line 176
    errors,     \* Spec: line 177
    log,        \* Spec: one record per file attempted: the status line printed for it
    summary,    \* Spec: the counts of the summary line 191, once printed
    input,      \* TextSpec: the text the chain of applications started from
    text,       \* TextSpec: the current text
    raised,     \* TextSpec: an application raised, which ends the chain
    trace       \* TextSpec: one record per application

vars == <<disk, disk0, idx, pc, processed, skipped, errors, log, summary,
          input, text, raised, trace>>

mainVars == <<disk, disk0, idx, pc, processed, skipped, errors, log, summary>>
textVars == <<input, text, raised, trace>>

(***************************************************************************)
(* process_alert_file (lines 141-166).                                     *)
(***************************************************************************)
\* Lines 155-162, once the pipeline has returned new_content for the file d:
\* the file is written only when the text changed.  exc names the statement
\* that raised, or is "none".
write_if_changed(d, new_content) ==
    IF new_content # d.text
    THEN IF d.writable
         THEN [exc |-> "none", ret |-> TRUE, status |-> "processed",
               text |-> new_content, wrote |-> TRUE]
         ELSE [exc |-> "open_write", ret |-> FALSE, status |-> "none",
               text |-> d.text, wrote |-> FALSE]
    ELSE [exc |-> "none", ret |-> FALSE, status |-> "nochange",
          text |-> d.text, wrote |-> FALSE]

\* Lines 153-162: r is what replace_alerts did on the normalized text.
after_replace(d, r) ==
    IF r.raised
    THEN [exc |-> "re.error", ret |-> FALSE, status |-> "none", text |-> d.text,
          wrote |-> FALSE]
    ELSE write_if_changed(d, r.text)

\* The body of the try statement (lines 144-162) on a file d.  original_content
\* is d.text, the text read.
try_body(d) ==
    IF ~d.readable
    THEN [exc |-> "open_read", ret |-> FALSE, status |-> "none", text |-> d.text,
          wrote |-> FALSE]
    ELSE after_replace(d, replace_alerts(add_toast_import(d.text)))

\* Without an except clause the exception of the body b leaves the function.
propagate(b) ==
    [ret |-> b.ret, status |-> b.status, text |-> b.text, wrote |-> b.wrote,
     exc |-> b.exc, propagated |-> b.exc # "none"]

\* except Exception (lines 164-166): the error line is printed and False returned.
except_clause(b) ==
    IF b.exc # "none"
    THEN [ret |-> FALSE, status |-> "error", text |-> b.text, wrote |-> b.wrote,
          exc |-> b.exc, propagated |-> FALSE]
    ELSE [ret |-> b.ret, status |-> b.status, text |-> b.text, wrote |-> b.wrote,
          exc |-> "none", propagated |-> FALSE]

\* Mutant: the function without its except clause.
process_alert_file_uncaught(d) == propagate(try_body(d))

process_alert_file(d) == except_clause(try_body(d))

(***************************************************************************)
(* main (lines 169-197).                                                   *)
(***************************************************************************)
Init ==
    /\ disk \in [1..NumFiles -> FileStates]
    /\ disk0 = disk
    /\ idx = 1
    /\ pc = "loop"
    /\ processed = 0
    /\ skipped = 0
    /\ errors = 0
    /\ log = <<>>
    /\ summary = <<>>
    /\ input = <<>>
    /\ text = <<>>
    /\ raised = FALSE
    /\ trace = <<>>

\* Line 179: the for loop has a next file, or is over.
InLoop == pc = "loop" /\ idx <= NumFiles
LoopOver == pc = "loop" /\ idx > NumFiles

\* Lines 182-185 once process_alert_file has returned r (or let an exception
\* through, which leaves main too): the counter is chosen by the return value.
count_result(r) ==
    /\ disk' = [disk EXCEPT ![idx].text = r.text]
    /\ pc' = IF r.propagated THEN "crashed" ELSE "loop"
    /\ processed' = IF ~r.propagated /\ r.ret THEN processed + 1 ELSE processed
    /\ skipped' = IF ~r.propagated /\ ~r.ret THEN skipped + 1 ELSE skipped
    /\ log' = Append(log, [file |-> idx, status |-> r.status, exc |-> r.exc,
                           wrote |-> r.wrote,
                           counted |-> IF r.propagated THEN "none"
                                       ELSE IF r.ret THEN "processed" ELSE "skipped"])
    /\ idx' = IF r.propagated THEN idx ELSE idx + 1

\* Lines 181-185: the path exists and process_alert_file is called on it.
MainProcess ==
    /\ InLoop
    /\ disk[idx].exists
    /\ count_result(process_alert_file(disk[idx]))
    /\ UNCHANGED <<disk0, errors, summary>>
    /\ UNCHANGED textVars

\* Lines 186-188: the path does not exist.
MainNotFound ==
    /\ InLoop
    /\ ~disk[idx].exists
    /\ errors' = errors + 1
    /\ log' = Append(log, [file |-> idx, status |-> "notfound", exc |-> "none",
                           wrote |-> FALSE, counted |-> "errors"])
    /\ idx' = idx + 1
    /\ UNCHANGED <<disk, disk0, pc, processed, skipped, summary>>
    /\ UNCHANGED textVars

\* Lines 190-197: the loop is over and the summary is printed.
MainSummary ==
    /\ LoopOver
    /\ pc' = "done"
    /\ summary' = <<processed, skipped, errors>>
    /\ UNCHANGED <<disk, disk0, idx, processed, skipped, errors, log>>
    /\ UNCHANGED textVars

Next == MainProcess \/ MainNotFound \/ MainSummary

Spec == Init /\ [][Next]_vars

(***************************************************************************)
(* TextSpec: the two text functions applied, in any order, to an input     *)
(* text.  An application that raises ends the chain, as the exception      *)
(* leaves the caller.                                                      *)
(***************************************************************************)
TextInit ==
    /\ input \in Texts
    /\ text = input
    /\ raised = FALSE
    /\ trace = <<>>
    /\ disk = <<>>
    /\ disk0 = <<>>
    /\ idx = 0
    /\ pc = "text"
    /\ processed = 0
    /\ skipped = 0
    /\ errors = 0
    /\ log = <<>>
    /\ summary = <<>>

\* content = add_toast_import(content)  (line 150)
Normalize ==
    /\ pc = "text"
    /\ ~raised
    /\ Len(trace) < MaxOps
    /\ text' = add_toast_import(text)
    /\ trace' = Append(trace, [op |-> "add_toast_import", before |-> text,
                               after |-> text', raised |-> FALSE,
                               subs |-> <<0, 0, 0, 0>>])
    /\ UNCHANGED <<input, raised>>
    /\ UNCHANGED mainVars

\* What the call of replace_alerts did: r.
record_rewrite(r) ==
    /\ raised' = r.raised
    /\ text' = IF r.raised THEN text ELSE r.text
    /\ trace' = Append(trace, [op |-> "replace_alerts", before |-> text,
                               after |-> text', raised |-> r.raised,
                               subs |-> r.subs])

\* content = replace_alerts(content)  (line 153)
Rewrite ==
    /\ pc = "text"
    /\ ~raised
    /\ Len(trace) < MaxOps
    /\ record_rewrite(replace_alerts(text))
    /\ UNCHANGED input
    /\ UNCHANGED mainVars

TextNext == Normalize \/ Rewrite

TextSpec == TextInit /\ [][TextNext]_vars


(***************************************************************************)
(* Properties.                                                             *)
(***************************************************************************)
\* The applications of add_toast_import and of replace_alerts in the trace.
Normalizations == {k \in 1..Len(trace) : trace[k].op = "add_toast_import"}
Rewrites == {k \in 1..Len(trace) : trace[k].op = "replace_alerts"}

\* Number of positions of s at which p starts.
Occurrences(s, p) == Cardinality({i \in 1..(Len(s) - Len(p) + 1) : MatchesAt(s, i, p)})

\* The text imports from the module sonner, with either kind of quote.
HasSonnerImport(t) == Contains(t, SONNER_SIGNATURE) \/ Contains(t, SONNER_DOUBLE_QUOTED)

\* C1: add_toast_import is idempotent: applied to its own result it returns
\* that result, so a second application never inserts a second import line.
C1_Idempotent ==
    \A k \in Normalizations :
        (k + 1) \in Normalizations => trace[k + 1].after = trace[k].after

\* C1's case: the first application inserted the import and a second one followed.
C1_Witness ==
    /\ Len(trace) >= 2
    /\ 1 \in Normalizations
    /\ 2 \in Normalizations
    /\ trace[1].after # trace[1].before
    /\ Occurrences(trace[2].after, toast_import) = 1

\* C2 as claimed: a text that already imports from sonner, whatever the quotes of
\* the import, is returned unchanged by add_toast_import.
C2_NoDuplicateAnyForm ==
    \A k \in Normalizations :
        HasSonnerImport(trace[k].before) => trace[k].after = trace[k].before

\* C3 as claimed: on a text with no sonner import that holds Scenario A's call,
\* add_toast_import then replace_alerts return a text with exactly one inserted
\* import line in which the call is toast.success with the same literal.
C3_ScenarioA ==
    ( /\ Len(trace) >= 2
      /\ 1 \in Normalizations
      /\ 2 \in Rewrites
      /\ ~HasSonnerImport(input)
      /\ Contains(input, AlertSuccessCall) )
    => /\ ~trace[2].raised
       /\ Occurrences(trace[2].after, toast_import) = 1
       /\ Contains(trace[2].after, ToastSuccessCall)
       /\ ~Contains(trace[2].after, AlertSuccessCall)

\* C4 as claimed: replace_alerts returns a text in which no call of alert is left.
C4_NoAlertLeft ==
    \A k \in Rewrites : ~trace[k].raised /\ ~Contains(trace[k].after, AlertOpen)

\* C5 as claimed: a quoted literal with a success keyword in upper case is
\* rewritten by replace_alerts to toast.success with the same literal.
C5_UpperCaseKeyword ==
    \A k \in Rewrites :
        Contains(trace[k].before, AlertUpperCall)
            => Contains(trace[k].after, ToastSuccessUpper)

\* C6 as claimed: a call site of the success rule is rewritten by exactly one
\* rule, the success rule, and by no later rule.
C6_ExactlyOneRule ==
    \A k \in Rewrites :
        (Occurrences(trace[k].before, AlertOpen) = 1
            /\ Contains(trace[k].before, AlertSuccessCall))
        => trace[k].subs = <<1, 0, 0, 0>>

\* C10 as claimed: replace_alerts is total, no application of a rule raises.
C10_Total == \A k \in Rewrites : ~trace[k].raised

\* C7 as claimed: a file that can be read and written is either overwritten,
\* exactly when its text changed, and reported as processed, or left untouched,
\* reported as no change and counted as skipped.
C7_WriteIffChanged ==
    \A k \in 1..Len(log) :
        LET d == disk0[log[k].file]
        IN  (d.exists /\ d.readable /\ d.writable)
            => /\ log[k].status \in {"processed", "nochange"}
               /\ log[k].wrote <=> (disk[log[k].file].text # d.text)
               /\ log[k].status = "processed" <=> log[k].wrote
               /\ log[k].status = "nochange" => log[k].counted = "skipped"

\* C8: no missing file and no failure in process_alert_file ends the batch: no
\* exception leaves main, the files attempted so far are the first ones of the
\* manifest, each once and in order, the summary is printed only after all of
\* them, and until it is printed the run is at a file of the loop or at its end.
C8_FailureContained ==
    /\ pc # "crashed"
    /\ Len(log) = idx - 1
    /\ \A k \in 1..Len(log) : log[k].file = k
    /\ pc = "done" => Len(log) = NumFiles /\ summary # <<>>
    /\ pc = "done" \/ InLoop \/ LoopOver

\* C8's case: the first file exists and its processing failed, a later path was
\* missing or failed too, and the run went on to the summary.
C8_Witness ==
    /\ pc = "done"
    /\ Len(log) = NumFiles
    /\ log[1].status = "error"
    /\ log[NumFiles].status \in {"error", "notfound"}

\* C9 as claimed: a file whose processing failed is counted in errors, a file
\* without change in skipped, a missing file in errors.
C9_FailuresCountedAsErrors ==
    \A k \in 1..Len(log) :
        /\ log[k].status = "error" => log[k].counted = "errors"
        /\ log[k].status = "nochange" => log[k].counted = "skipped"
        /\ log[k].status = "notfound" => log[k].counted = "errors"
====
